---- MODULE Spec2Model ----
(***************************************************************************)
(* Content selection and record assembly of the shift logbook generators:  *)
(*   generator.py             LogbookGenerator        (count-based         *)
(*                            variety selector)                            *)
(*   generator_custom.py      CustomLogbookGenerator  (override merge)     *)
(*   csv_processor.py         CSVProcessor            (tabular path)       *)
(*   csv_processor_completo.py CSVProcessorCompleto   (tabular path with   *)
(*                            the workflow table)                          *)
(*                                                                         *)
(* A text is a sequence of characters; a character is a one-letter string. *)
(* The blank character is " ".  A missing table cell (pandas NaN) is the   *)
(* value NaN, which is not a text of the program.                          *)
(***************************************************************************)
EXTENDS Integers, Sequences, FiniteSets, TLC

VARIABLES
    content,        \* generator.py: self.content, category -> list of texts
    used_content,   \* generate_shifts: used_content, category -> list of texts
    returned,       \* per category, the values get_varied_content returned, in call order
    i,              \* generator_custom.py generate_shifts: the loop index, shifts done
    shift_pc,       \* generate_shifts: "loop" between iterations, "branch" at line 96
    is_custom,      \* shift_number in self.custom_data, for the shift at hand
    custom_shift,   \* self.custom_data[shift_number], the override record of that shift
    shift_data,     \* generate_shifts: shift_data, the record of the shift at hand
    custom_count,   \* generate_shifts: custom_count
    auto_count,     \* generate_shifts: auto_count
    printed,        \* the line generate_shifts printed for the shift
    shifts,         \* generate_shifts: shifts, the number, date and type of its records
    n_shifts,       \* the number of iterations of the loop of generate_shifts
    run_pc,         \* generator_custom.py main: "load", "confirm", "generate",
                    \* "shifts", "emit", "done", "exit"
    custom_data,    \* self.custom_data: "empty" for {}, "records" otherwise
    loaded_from,    \* the branch of load_custom_data that returned
    asked,          \* load_custom_data asked whether to continue
    choice,         \* load_custom_data: choice, the answer
    custom_records, \* self.custom_data when it was built from the file the
                    \* collector saved: shift_number -> record
    total_custom,   \* show_statistics: total_custom
    total_auto,     \* show_statistics: total_auto
    pc,             \* csv_processor.py: where the processing of the table stands
    row,            \* the row of df at hand (its columns under consideration)
    filled_row,     \* the same row of filled_df
    rows_read,      \* the number of rows of df read so far
    step,           \* csv_processor_completo.py: the block of fill_missing_data at hand
    manual_count,   \* generate_summary_report: manual_count
    report_auto_count,  \* generate_summary_report: auto_count
    recipes,        \* logbook_generator.py generate_shift_data: recipes
    days,           \* generate_shift_data: days
    day,            \* generate_shift_data: the loop variable, days done
    histories,      \* generate_shift_data: histories, category -> (item -> day)
    data,           \* generate_shift_data: data, the shift and obs of its entries
    last_use,       \* category -> item -> the day of the latest entry of data
                    \* that holds the item, among the entries of the last Gap
                    \* days (0: none); the protein, sauce and accompaniment of
                    \* the entries, as far as the claims read them
    raised,         \* the exception that ended the run ("": none)
    doc_index,      \* generate_documents: the number of shifts the loop has taken
    success_count,  \* generate_documents: success_count
    saved_count,    \* the number of shifts whose render and save both returned
    doc_printed,    \* generate_documents: the line printed for the shift
    result,         \* generate_documents: the value returned ("none" before)
    template,       \* generate_documents: template, the DocxTemplate instance:
                    \* "fresh" when render was not called on it, "rendered"
                    \* when it was called for one shift, "reused" when it was
                    \* called for more than one ("none": no instance)
    rows_done,      \* csv_processor.py generate_documents: the rows taken
    successful_docs,    \* csv_processor.py generate_documents: successful_docs
    files,          \* the output folder: file name -> the rows written to it
    prompt_pc,      \* input_collector.py get_user_choice_or_custom: "call",
                    \* "choice" after the first prompt, "all" after the second,
                    \* "returned"
    pool_key,       \* get_user_choice_or_custom: pool_key
    allow_long_text,    \* get_user_choice_or_custom: allow_long_text
    user_choice,    \* get_user_choice_or_custom: choice
    asked_text,     \* the function asked for the custom text
    typed_lines,    \* the lines the user typed when asked for the custom text
    returned_text,  \* the value get_user_choice_or_custom returned
    collector_pc,   \* input_collector.py run: "load", "menu", "interactive",
                    \* "hybrid", "save", "done" ("off": the collector and its
                    \* file are not part of the run)
    shifts_data,    \* self.shifts_data
    collected,      \* the number of shifts the session has taken (the i of the
                    \* loop of collect_shift_data_interactive)
    shift_numbers,  \* collect_key_shifts_only: the sorted numbers still to take
    template_rows,  \* create_excel_template: rows
    file_exists,    \* shifts_data_custom.json exists
    saved_file      \* the list of records in shifts_data_custom.json

selectorVars == <<content, used_content, returned>>

loadedVars == <<custom_records, total_custom, total_auto>>

runVars ==
    <<n_shifts, run_pc, custom_data, loaded_from, asked, choice, loadedVars>>

customVars ==
    <<i, shift_pc, is_custom, custom_shift, shift_data, custom_count, auto_count,
      printed, shifts, runVars>>

csvVars ==
    <<pc, row, filled_row, rows_read, step, manual_count, report_auto_count>>

logbookVars == <<recipes, days, day, histories, data, last_use>>

docVars ==
    <<doc_index, success_count, saved_count, doc_printed, result, template>>

csvDocVars == <<rows_done, successful_docs, files>>

promptVars ==
    <<prompt_pc, pool_key, allow_long_text, user_choice, asked_text, typed_lines,
      returned_text>>

sessionVars ==
    <<collector_pc, shifts_data, collected, shift_numbers, template_rows,
      file_exists, saved_file>>

collectorVars == <<promptVars, sessionVars>>

\* the variables generate_shifts (generator.py, generator_custom.py) leaves alone
besidesGenerator == <<csvVars, logbookVars, raised, docVars, csvDocVars, collectorVars>>

\* the variables fill_missing_data and generate_summary_report leave alone
besidesCsv == <<selectorVars, customVars, logbookVars, raised, docVars, csvDocVars, collectorVars>>

\* the variables generate_shift_data leaves alone
besidesLogbook == <<selectorVars, customVars, csvVars, docVars, csvDocVars, collectorVars>>

\* the variables input_collector.py leaves alone
besidesCollector ==
    <<selectorVars, customVars, csvVars, logbookVars, raised, docVars, csvDocVars>>

vars ==
    <<selectorVars, customVars, csvVars, logbookVars, raised, docVars, csvDocVars, collectorVars>>

----------------------------------------------------------------------------
(* Bounds of the model *)

\* largest pool of a category
MaxPool == 4
\* number of get_varied_content calls in one run of the selector model
MaxCalls == 8
\* number of shifts of one run of generate_shifts (the program generates 48)
MaxShifts == 3
\* size of every pool in the runs of generate_shifts and of the CSV processors
PoolSize == 2
\* number of rows of the table the CSV processor reads
MaxRows == 2
\* largest list of recipes of a category in the runs of generate_shift_data
MaxItems == 6
\* largest number of days of those runs
MaxDays == 10
\* largest list of recipes in the runs over lists of at least Gap recipes
MaxLongItems == 9
\* number of days of those runs
MaxLongDays == 16
\* number of shifts of a session of the collector for which the user types a
\* text (for the later ones the user presses Enter at every prompt), and the
\* largest number of shift numbers the user types in hybrid mode
MaxTyped == 2

(* Program constants *)

\* generator.py:103, generator_custom.py:166: len(used_content[content_type]) > 3
HistoryBound == 3
\* generator.py:54, generator_custom.py:77: for i in range(48)
NumShifts == 48
\* logbook_generator.py:48  gap: int = 8
Gap == 8
\* logbook_generator.py:72  rotation = 5
rotation == 5
\* logbook_generator.py:69  days: int = 45
DefaultDays == 45

----------------------------------------------------------------------------
(* Texts *)

Range(s) == {s[k] : k \in 1..Len(s)}

Last(s) == s[Len(s)]

\* the letters pool texts are written with
PoolLetters == <<"a", "b", "c", "d", "e", "f", "g", "h", "i", "j", "k", "l">>

\* a pool of K distinct texts
Pool(K) == [k \in 1..K |-> <<PoolLetters[k]>>]

\* the categories the selector keeps a history for (generator.py:47-52); complaints
\* and debrief go through the same code as the two modelled here
Categories == {"special_requests", "food_details"}

----------------------------------------------------------------------------
(* LogbookGenerator.get_varied_content, generator.py:83-106                 *)
(* (CustomLogbookGenerator.get_varied_content, generator_custom.py:146-169, *)
(* is the same code)                                                        *)

\* mutant: the history is reset only when it is longer than the pool
NeedsResetStrict(used, available_content) == Len(used) > Len(available_content)

\* generator.py:88  if len(used_content[content_type]) >= len(available_content)
NeedsReset(used, available_content) == Len(used) >= Len(available_content)

\* mutant: the reset keeps the last value of the history
AfterResetKeepingLast(used, available_content) ==
    IF NeedsReset(used, available_content) /\ used # <<>>
    THEN <<used[Len(used)]>>
    ELSE used

\* generator.py:88-89  the history the selection works with
AfterReset(used, available_content) ==
    IF NeedsReset(used, available_content) THEN <<>> ELSE used

\* mutant: the history is not consulted
unusedIgnoringHistory(used, available_content) == available_content

\* generator.py:92  unused = [item for item in available_content if item not in used]
unused(used, available_content) ==
    SelectSeq(available_content, LAMBDA item : item \notin Range(used))

\* mutant: random.choice always draws from the whole pool
CandidatesFromPool(used, available_content) == available_content

\* generator.py:94-97  the list random.choice draws from
Candidates(used, available_content) ==
    IF unused(used, available_content) # <<>>
    THEN unused(used, available_content)
    ELSE available_content

\* mutant: only the last 2 items are kept
RegisterUseKeepingTwo(used, selected) ==
    LET appended == Append(used, selected)
    IN  IF Len(appended) > 2 THEN Tail(appended) ELSE appended

\* mutant: the history is never trimmed
RegisterUseUntrimmed(used, selected) == Append(used, selected)

\* generator.py:100-104  append, then keep only the last 3 items
RegisterUse(used, selected) ==
    LET appended == Append(used, selected)
    IN  IF Len(appended) > HistoryBound THEN Tail(appended) ELSE appended

\* the number of calls made so far
NumCalls ==
    Len(returned["special_requests"]) + Len(returned["food_details"])

\* mutant: a selector with neither the reset nor the fallback, which can only
\* return a candidate that is not in the history
get_varied_content_naive(content_type) ==
    /\ NumCalls < MaxCalls
    /\ LET available_content == content[content_type]
           used == used_content[content_type]
       IN  \E selected \in Range(unused(used, available_content)) :
             /\ used_content' =
                  [used_content EXCEPT ![content_type] = RegisterUse(used, selected)]
             /\ returned' =
                  [returned EXCEPT ![content_type] = Append(@, selected)]
    /\ UNCHANGED content

\* one call get_varied_content(content_type, used_content)
get_varied_content(content_type) ==
    /\ NumCalls < MaxCalls
    /\ LET available_content == content[content_type]
           used == AfterReset(used_content[content_type], available_content)
       IN  \E selected \in Range(Candidates(used, available_content)) :
             /\ used_content' =
                  [used_content EXCEPT ![content_type] = RegisterUse(used, selected)]
             /\ returned' =
                  [returned EXCEPT ![content_type] = Append(@, selected)]
    /\ UNCHANGED content

----------------------------------------------------------------------------
(* CustomLogbookGenerator.generate_shifts, generator_custom.py:60-113 *)

\* the state of generate_shifts before its first iteration
NoShiftYet ==
    /\ i = 0
    /\ shift_pc = "loop"
    /\ is_custom = FALSE
    /\ custom_shift = <<>>
    /\ shift_data = <<>>
    /\ custom_count = 0
    /\ auto_count = 0
    /\ printed = ""
    /\ shifts = <<>>

\* custom_data is not built from a file of the collector, and show_statistics
\* has not run
NothingLoaded ==
    /\ custom_records = <<>>
    /\ total_custom = 0
    /\ total_auto = 0

\* no run of generator_custom.py main
NoRunYet ==
    /\ n_shifts = 0
    /\ run_pc = "off"
    /\ custom_data = "none"
    /\ loaded_from = ""
    /\ asked = FALSE
    /\ choice = ""
    /\ NothingLoaded

\* the CSV processors before a table is read
NoTableYet ==
    /\ pc = "idle"
    /\ row = <<>>
    /\ filled_row = <<>>
    /\ rows_read = 0
    /\ step = 0
    /\ manual_count = 0
    /\ report_auto_count = 0

\* generate_documents before it is called
NoDocumentYet ==
    /\ doc_index = 0
    /\ success_count = 0
    /\ saved_count = 0
    /\ doc_printed = ""
    /\ result = "none"
    /\ template = "none"
    /\ rows_done = 0
    /\ successful_docs = 0
    /\ files = <<>>

\* get_user_choice_or_custom before it is called
NoPromptYet ==
    /\ prompt_pc = "off"
    /\ pool_key = ""
    /\ allow_long_text = FALSE
    /\ user_choice = <<>>
    /\ asked_text = FALSE
    /\ typed_lines = <<>>
    /\ returned_text = <<>>

\* ShiftInputCollector.run before it is called, and no file of it
NoSessionYet ==
    /\ collector_pc = "off"
    /\ shifts_data = <<>>
    /\ collected = 0
    /\ shift_numbers = <<>>
    /\ template_rows = <<>>
    /\ file_exists = FALSE
    /\ saved_file = <<>>

\* input_collector.py is not run
NoCollectorYet == NoPromptYet /\ NoSessionYet

\* generate_shift_data before it is called
NoLogbookYet ==
    /\ recipes = <<>>
    /\ days = 0
    /\ day = 0
    /\ histories = <<>>
    /\ data = <<>>
    /\ last_use = <<>>

----------------------------------------------------------------------------
(* The selector: any sequence of calls over the categories *)

Init ==
    /\ content \in [Categories -> {Pool(K) : K \in 1..MaxPool}]
    /\ used_content = [c \in Categories |-> <<>>]
    /\ returned = [c \in Categories |-> <<>>]
    /\ NoShiftYet
    /\ NoRunYet
    /\ NoTableYet
    /\ NoLogbookYet
    /\ NoDocumentYet
    /\ NoCollectorYet
    /\ raised = ""

Next ==
    /\ \E content_type \in Categories : get_varied_content(content_type)
    /\ UNCHANGED <<customVars, besidesGenerator>>

Spec == Init /\ [][Next]_vars

----------------------------------------------------------------------------
(* Claims about the selector *)

\* the call made in this step is a call on category c
Called(c) == returned'[c] # returned[c]

\* C1 as stated: for every category whose pool has at least 2 distinct
\* candidates, no two consecutive calls of get_varied_content on that category
\* return the same value.
C1_NoImmediateRepeat ==
    \A c \in Categories :
        Len(content[c]) >= 2 =>
            \A k \in 1..(Len(returned[c]) - 1) : returned[c][k] # returned[c][k + 1]

\* C1 as amended: for a pool of at least 2 distinct candidates, a call returns
\* a value different from the one the previous call on the category returned,
\* unless the call resets the history (the history held as many values as the
\* pool has candidates, which happens only for pools of at most 3 candidates).
C1_NoRepeatWithoutReset ==
    [][\A c \in Categories :
          (/\ Called(c)
           /\ Len(content[c]) >= 2
           /\ returned[c] # <<>>
           /\ ~NeedsReset(used_content[c], content[c]))
          => Last(returned'[c]) # Last(returned[c])]_vars

\* some category with a pool larger than the history bound has been called
\* five times, and one with a pool of 2 has been called twice: calls that
\* follow a call without a reset have happened
C1_Witness ==
    \E c, d \in Categories :
        /\ Len(content[c]) > HistoryBound /\ Len(returned[c]) >= 5
        /\ Len(content[d]) = 2 /\ Len(returned[d]) = 2
        /\ returned[d][1] # returned[d][2]

\* the values returned by the K calls starting with call number s
Window(c, s, K) == {returned[c][s + j] : j \in 0..(K - 1)}

\* C2 as stated: for a pool of K <= 3 distinct candidates, every window of K
\* consecutive selections, starting at any position, contains every candidate.
C2_EveryWindowCovers ==
    \A c \in Categories :
        LET K == Len(content[c])
        IN  K <= HistoryBound =>
              \A s \in 1..(Len(returned[c]) - K + 1) :
                  Window(c, s, K) = Range(content[c])

\* C2 as amended: for a pool of K <= 3 distinct candidates, every window of K
\* consecutive selections that starts at call number 1, K+1, 2K+1, ... (a
\* multiple of K calls after the first) contains every candidate.
C2_AlignedWindowCovers ==
    \A c \in Categories :
        LET K == Len(content[c])
        IN  K <= HistoryBound =>
              \A s \in 1..(Len(returned[c]) - K + 1) :
                  (s - 1) % K = 0 => Window(c, s, K) = Range(content[c])

\* a pool of 3 has been selected from six times: two full aligned windows
C2_Witness ==
    \E c \in Categories : Len(content[c]) = 3 /\ Len(returned[c]) = 6

\* C10: after every call the history of each category holds at most 3 values,
\* and a call that finds 3 values in a history it does not reset drops the
\* oldest one and appends the value it returns.
C10_HistoryBounded ==
    /\ [](\A c \in Categories : Len(used_content[c]) <= HistoryBound)
    /\ [][\A c \in Categories :
            (/\ Called(c)
             /\ Len(used_content[c]) = HistoryBound
             /\ ~NeedsReset(used_content[c], content[c]))
            => used_content'[c] =
                 Append(Tail(used_content[c]), Last(returned'[c]))]_vars

\* a category has been called more often than the history holds values, and
\* its history is full: the oldest entry has been dropped
C10_Witness ==
    \E c \in Categories :
        /\ Len(content[c]) > HistoryBound
        /\ Len(returned[c]) > HistoryBound + 1
        /\ Len(used_content[c]) = HistoryBound

\* C11: for a category whose pool has exactly 1 candidate, a call of
\* get_varied_content can be made after any sequence of calls (it returns, it
\* does not raise for want of a candidate), and every call made has returned
\* that candidate.
C11_SingletonPoolNeverStarves ==
    \A c \in Categories :
        Len(content[c]) = 1 =>
            /\ \A k \in 1..Len(returned[c]) : returned[c][k] = content[c][1]
            /\ NumCalls < MaxCalls => ENABLED get_varied_content(c)

\* a category with a pool of 1 has been called more often than the history
\* holds values, and another call on it can be made
C11_Witness ==
    \E c \in Categories :
        /\ Len(content[c]) = 1
        /\ Len(returned[c]) > HistoryBound
        /\ NumCalls < MaxCalls

\* C23: for a pool of at least 4 distinct candidates, no call on the category
\* resets its history, and each returned value differs from each of the values
\* the 3 preceding calls on the category returned: any 4 consecutive selections
\* are pairwise distinct.
C23_FourConsecutiveDistinct ==
    /\ [](\A c \in Categories :
             Len(content[c]) >= 4 =>
                 \A k \in 1..Len(returned[c]) : \A j \in 1..3 :
                     k + j <= Len(returned[c]) => returned[c][k] # returned[c][k + j])
    /\ [][\A c \in Categories :
             (Called(c) /\ Len(content[c]) >= 4) =>
                 ~NeedsReset(used_content[c], content[c])]_vars

\* a pool of 4 has been selected from six times, and the fifth call returned
\* the value of the first: a value comes back as soon as 3 others were returned
C23_Witness ==
    \E c \in Categories :
        /\ Len(content[c]) = 4
        /\ Len(returned[c]) = 6
        /\ returned[c][5] = returned[c][1]

\* C24: for a pool of K <= 3 distinct candidates, the selections on the
\* category, cut into consecutive blocks of K calls from the first call on,
\* are blocks that each hold every candidate once, and a call resets the
\* history exactly when it is the first call of a block after the first block.
C24_BlocksArePermutations ==
    /\ [](\A c \in Categories :
             LET K == Len(content[c])
             IN  K <= HistoryBound =>
                   \A b \in 0..(Len(returned[c]) \div K - 1) :
                       Window(c, b * K + 1, K) = Range(content[c]))
    /\ [][\A c \in Categories :
             LET K == Len(content[c])
             IN  (Called(c) /\ K <= HistoryBound) =>
                   (NeedsReset(used_content[c], content[c]) <=>
                       (Len(returned[c]) > 0 /\ Len(returned[c]) % K = 0))]_vars

\* a pool of 3 has been selected from seven times: two full blocks, and the
\* first call of the third block, after which the history holds one value
C24_Witness ==
    \E c \in Categories :
        /\ Len(content[c]) = 3
        /\ Len(returned[c]) = 7
        /\ Len(used_content[c]) = 1

\* the values of a list are pairwise distinct
Distinct(s) == \A j, k \in 1..Len(s) : j # k => s[j] # s[k]

\* C27: after every call, the history of each category holds only members of
\* the pool, holds no value twice, and ends with the value the last call on
\* the category returned; every value returned is a member of the pool.
C27_HistoryWellFormed ==
    \A c \in Categories :
        /\ Range(used_content[c]) \subseteq Range(content[c])
        /\ Distinct(used_content[c])
        /\ Range(returned[c]) \subseteq Range(content[c])
        /\ returned[c] # <<>> =>
              (used_content[c] # <<>> /\ Last(used_content[c]) = Last(returned[c]))

\* a pool of 2 has been selected from three times, the third call after a
\* reset and returning the value of the call before it: the history holds that
\* value once
C27_Witness ==
    \E c \in Categories :
        /\ Len(content[c]) = 2
        /\ Len(returned[c]) = 3
        /\ returned[c][3] = returned[c][2]
        /\ used_content[c] = <<returned[c][3]>>

----------------------------------------------------------------------------
(* Texts the user can type, and str.strip *)

RECURSIVE lstrip(_)
\* the text without its leading blanks
lstrip(t) == IF t # <<>> /\ Head(t) = " " THEN lstrip(Tail(t)) ELSE t

RECURSIVE rstrip(_)
\* the text without its trailing blanks
rstrip(t) ==
    IF t # <<>> /\ t[Len(t)] = " " THEN rstrip(SubSeq(t, 1, Len(t) - 1)) ELSE t

\* str.strip()
strip(t) == rstrip(lstrip(t))

\* the values an override field is given: the empty text, a text of blanks,
\* and a text with a leading blank
UserTexts == {<<>>, <<" ">>, <<" ", "u">>}

----------------------------------------------------------------------------
(* CustomLogbookGenerator, generator_custom.py *)

\* generator_custom.py:126  the fields merge_custom_data loops over (complaints
\* and debrief go through the same loop body as the two modelled here)
NarrativeFields == Categories

\* the text fields of an override record
CustomFields == {"prepared_service"} \cup NarrativeFields

\* the override records: each field is absent or holds a user text
CustomRecords == UNION {[D -> UserTexts] : D \in SUBSET CustomFields}

\* self.content_pools['prepared_service'][shift_type]
prepared_service_pool == [lunch |-> <<"L">>, dinner |-> <<"D">>]

\* mutant: the two shift types change places
ShiftTypeSwapped(n) == IF n % 2 = 0 THEN "dinner" ELSE "lunch"

\* generator_custom.py:80  shift_type = 'lunch' if i % 2 == 0 else 'dinner'
ShiftType(n) == IF n % 2 = 0 THEN "lunch" ELSE "dinner"

\* str.title() of the two shift types
Title(shift_type) == IF shift_type = "lunch" THEN "Lunch" ELSE "Dinner"

\* mutant: the override value is stored trimmed
merge_field_trimmed(custom, field, sampled) ==
    IF field \in DOMAIN custom /\ strip(custom[field]) # <<>>
    THEN strip(custom[field])
    ELSE sampled

\* generator_custom.py:127-131  one narrative field of merge_custom_data;
\* sampled is the value random.choice(self.content_pools[field]) draws
merge_field(custom, field, sampled) ==
    IF field \in DOMAIN custom /\ strip(custom[field]) # <<>>
    THEN custom[field]
    ELSE sampled

\* generator_custom.py:115-133  merge_custom_data(custom_shift, shift_type)
merge_custom_data(custom, shift_type, sampled) ==
    [field \in CustomFields |->
        IF field = "prepared_service"
        THEN IF "prepared_service" \in DOMAIN custom
             THEN custom["prepared_service"]
             ELSE prepared_service_pool[shift_type]
        ELSE merge_field(custom, field, sampled[field])]

\* mutant: prepared_service is not taken from the pool
generate_automatic_data_unprepared(shift_type, selected) ==
    [field \in CustomFields |->
        IF field = "prepared_service" THEN <<>> ELSE selected[field]]

\* generator_custom.py:135-144  generate_automatic_data(shift_type, used_content);
\* selected holds the values get_varied_content returns
generate_automatic_data(shift_type, selected) ==
    [field \in CustomFields |->
        IF field = "prepared_service"
        THEN prepared_service_pool[shift_type]
        ELSE selected[field]]

\* generator_custom.py:78-93  the basic data of shift n + 1
basic_shift_data(n) ==
    [shift_number |-> n + 1,
     date |-> n \div 2,
     shift_type |-> Title(ShiftType(n))]

\* generator_custom.py:99, 104  shift_data.update(data)
update(record, other) ==
    [f \in DOMAIN record \cup DOMAIN other |->
        IF f \in DOMAIN other THEN other[f] ELSE record[f]]

\* the values get_varied_content can return for a category
Selectable(content_type) ==
    Range(Candidates(AfterReset(used_content[content_type], content[content_type]),
                     content[content_type]))

\* the history of a category after get_varied_content returned selected
HistoryAfter(content_type, selected) ==
    RegisterUse(AfterReset(used_content[content_type], content[content_type]),
                selected)

\* generator_custom.py:108  shifts.append(shift_data): the number, date and
\* type of the record
ScheduleOf(record) ==
    [f \in {"shift_number", "date", "shift_type"} |-> record[f]]

\* the answers the user can give load_custom_data
Answers == {"s", "S", "n", ""}

\* generator_custom.py:56  choice.lower()
lower(answer) == IF answer = "S" THEN "s" ELSE answer

\* the run follows a run of the collector: shifts_data_custom.json is the file
\* the model holds in file_exists and saved_file (otherwise the records of the
\* file are read as generate_shifts looks them up)
FileModelled == collector_pc # "off"

\* the positions of the records of a list that have the shift number n
RecordsOf(records, n) == {k \in 1..Len(records) : records[k].shift_number = n}

\* the largest number of a set
Max(S) == CHOOSE m \in S : \A k \in S : k <= m

\* mutant: the first record of a shift number stays in the dict
custom_dict_keeping_first(records) ==
    [n \in {records[k].shift_number : k \in 1..Len(records)} |->
        records[CHOOSE m \in RecordsOf(records, n) :
                    \A k \in RecordsOf(records, n) : m <= k]]

\* generator_custom.py:48  {item['shift_number']: item for item in data}
custom_dict(records) ==
    [n \in {records[k].shift_number : k \in 1..Len(records)} |->
        records[Max(RecordsOf(records, n))]]

\* generator_custom.py:40-58  load_custom_data, called by __init__: the file
\* is read into a dict (which is empty when the file holds an empty list), or
\* reading it fails, or there is no file and the user is asked
load_custom_data ==
    /\ run_pc = "load"
    /\ \/ /\ ~FileModelled
          /\ loaded_from' = "file"
          /\ custom_data' \in {"empty", "records"}
          /\ UNCHANGED <<asked, choice, custom_records>>
          /\ run_pc' = "confirm"
       \/ /\ FileModelled
          /\ file_exists
          /\ loaded_from' = "file"
          /\ custom_records' = custom_dict(saved_file)
          /\ custom_data' = IF saved_file = <<>> THEN "empty" ELSE "records"
          /\ UNCHANGED <<asked, choice>>
          /\ run_pc' = "confirm"
       \/ /\ FileModelled => file_exists
          /\ loaded_from' = "error"
          /\ custom_data' = "empty"
          /\ UNCHANGED <<asked, choice, custom_records>>
          /\ run_pc' = "confirm"
       \/ /\ FileModelled => ~file_exists
          /\ asked' = TRUE
          /\ choice' \in Answers
          /\ IF lower(choice') # "s"
             THEN /\ run_pc' = "exit"
                  /\ UNCHANGED <<custom_data, loaded_from>>
             ELSE /\ run_pc' = "confirm"
                  /\ loaded_from' = "absent"
                  /\ custom_data' = "empty"
          /\ UNCHANGED custom_records
    /\ UNCHANGED <<n_shifts, total_custom, total_auto, i, shift_pc, is_custom,
                   custom_shift, shift_data, custom_count, auto_count, printed,
                   shifts, selectorVars, besidesGenerator>>

\* generator_custom.py:278  len(self.custom_data)
LenCustomData ==
    IF FileModelled THEN {Cardinality(DOMAIN custom_records)}
    ELSE IF custom_data = "empty" THEN {0}
    ELSE 1..n_shifts

\* generator_custom.py:276-291, 313-335  main shows the statistics and asks
\* whether to generate the documents; response is the answer after lower() and
\* strip()
confirm_generation ==
    /\ run_pc = "confirm"
    /\ \E len \in LenCustomData :
         /\ total_custom' = len
         /\ total_auto' = 48 - len
    /\ \E response \in {"s", "n"} :
         run_pc' = IF response \in {"s", "sim", "y", "yes"} THEN "generate" ELSE "exit"
    /\ UNCHANGED <<n_shifts, custom_data, loaded_from, asked, choice, custom_records,
                   i, shift_pc,
                   is_custom, custom_shift, shift_data, custom_count, auto_count,
                   printed, shifts, selectorVars, besidesGenerator>>

\* generator_custom.py:187-198  generate_documents is called and looks for its
\* template: without one it returns False, with one it calls generate_shifts
open_template ==
    /\ run_pc = "generate"
    /\ \E template_file \in {"loaded", "missing", "unreadable"} :
         IF template_file = "loaded"
         THEN run_pc' = "shifts" /\ template' = "fresh" /\ UNCHANGED result
         ELSE run_pc' = "done" /\ result' = "False" /\ UNCHANGED template
    /\ UNCHANGED <<n_shifts, custom_data, loaded_from, asked, choice, loadedVars, i, shift_pc,
                   is_custom, custom_shift, shift_data, custom_count, auto_count,
                   printed, shifts, selectorVars, csvVars, logbookVars, raised,
                   doc_index, success_count, saved_count, doc_printed, csvDocVars, collectorVars>>

\* generator_custom.py:77-96  the head of an iteration: the basic data of the
\* shift, and the lookup of the shift number in custom_data
begin_shift ==
    /\ run_pc = "shifts"
    /\ raised = ""
    /\ shift_pc = "loop"
    /\ i < n_shifts
    /\ shift_data' = basic_shift_data(i)
    /\ \/ /\ ~FileModelled
          /\ custom_data = "records"
          /\ is_custom' = TRUE
          /\ custom_shift' \in CustomRecords
       \/ /\ FileModelled
          /\ (i + 1) \in DOMAIN custom_records
          /\ is_custom' = TRUE
          /\ custom_shift' = custom_records[i + 1]
       \/ /\ FileModelled => (i + 1) \notin DOMAIN custom_records
          /\ is_custom' = FALSE
          /\ custom_shift' = <<>>
    /\ printed' = ""
    /\ shift_pc' = "branch"
    /\ UNCHANGED <<i, custom_count, auto_count, shifts, runVars, selectorVars,
                   besidesGenerator>>

\* generator_custom.py:96-101, 108  the branch for a shift that is in custom_data
generate_shift_custom ==
    /\ shift_pc = "branch"
    /\ is_custom
    /\ \E sampled \in [NarrativeFields -> UNION {Range(content[f]) : f \in NarrativeFields}] :
         /\ \A f \in NarrativeFields : sampled[f] \in Range(content[f])
         /\ shift_data' =
              update(shift_data, merge_custom_data(custom_shift, ShiftType(i), sampled))
    /\ custom_count' = custom_count + 1
    /\ printed' = "dados personalizados"
    /\ shifts' = Append(shifts, ScheduleOf(shift_data))
    /\ i' = i + 1
    /\ shift_pc' = "loop"
    /\ UNCHANGED <<is_custom, custom_shift, auto_count, runVars, selectorVars,
                   besidesGenerator>>

\* generator_custom.py:102-106, 108  the branch for a shift that is not in custom_data
generate_shift_automatic ==
    /\ shift_pc = "branch"
    /\ ~is_custom
    /\ \E selected \in [NarrativeFields -> UNION {Range(content[f]) : f \in NarrativeFields}] :
         /\ \A f \in NarrativeFields : selected[f] \in Selectable(f)
         /\ used_content' = [f \in Categories |-> HistoryAfter(f, selected[f])]
         /\ shift_data' =
              update(shift_data, generate_automatic_data(ShiftType(i), selected))
    /\ auto_count' = auto_count + 1
    /\ printed' = "dados automaticos"
    /\ shifts' = Append(shifts, ScheduleOf(shift_data))
    /\ i' = i + 1
    /\ shift_pc' = "loop"
    /\ UNCHANGED <<is_custom, custom_shift, custom_count, runVars, content, returned,
                   besidesGenerator>>

\* the program is started: __init__ has loaded the pools
RunStarts(n) ==
    /\ n_shifts = n
    /\ run_pc = "load"
    /\ custom_data = "none"
    /\ loaded_from = ""
    /\ asked = FALSE
    /\ choice = ""
    /\ NothingLoaded

InitCustom ==
    /\ content = [c \in Categories |-> Pool(PoolSize)]
    /\ used_content = [c \in Categories |-> <<>>]
    /\ returned = [c \in Categories |-> <<>>]
    /\ NoShiftYet
    /\ RunStarts(MaxShifts)
    /\ NoTableYet
    /\ NoLogbookYet
    /\ NoDocumentYet
    /\ NoCollectorYet
    /\ raised = ""

NextCustom ==
    \/ load_custom_data
    \/ confirm_generation
    \/ open_template
    \/ begin_shift
    \/ generate_shift_custom
    \/ generate_shift_automatic

SpecCustom == InitCustom /\ [][NextCustom]_vars

\* the whole run of 48 shifts with an empty override set: custom_data was
\* loaded from a file that holds no record, main was told to generate, and
\* generate_documents has its template and calls generate_shifts
ZeroOverrides ==
    /\ n_shifts = NumShifts
    /\ run_pc = "shifts"
    /\ custom_data = "empty"
    /\ loaded_from = "file"
    /\ asked = FALSE
    /\ choice = ""
    /\ NothingLoaded

InitEndToEnd ==
    /\ content = [c \in Categories |-> Pool(PoolSize)]
    /\ used_content = [c \in Categories |-> <<>>]
    /\ returned = [c \in Categories |-> <<>>]
    /\ NoShiftYet
    /\ ZeroOverrides
    /\ NoTableYet
    /\ NoLogbookYet
    /\ NoDocumentYet
    /\ NoCollectorYet
    /\ raised = ""

NextEndToEnd ==
    \/ begin_shift
    \/ generate_shift_automatic

SpecEndToEnd == InitEndToEnd /\ [][NextEndToEnd]_vars

\* generator.py:203  lunch_count
lunch_count == Cardinality({k \in 1..Len(shifts) : shifts[k].shift_type = "Lunch"})

\* generator.py:204  dinner_count
dinner_count == Cardinality({k \in 1..Len(shifts) : shifts[k].shift_type = "Dinner"})

\* C19: generator_custom proceeds with an empty override set only after an
\* explicit confirmation: whenever load_custom_data has returned the empty set
\* because the custom data could not be loaded (no file, or a file that cannot
\* be read), the user was asked whether to continue and answered "s"; and after
\* any other answer the run has ended without generating a shift.
C19_ConfirmedBeforeAutomatic ==
    /\ (custom_data = "empty" /\ loaded_from \in {"error", "absent"}) =>
           (asked /\ choice = "s")
    /\ (asked /\ choice # "s") =>
           (run_pc = "exit" /\ i = 0 /\ shifts = <<>> /\ shift_data = <<>>)

----------------------------------------------------------------------------
(* generate_documents, generator.py:120-181 and generator_custom.py:183-257 *)

\* what can happen to one shift in the loop: everything returns, or
\* format_workflow_table raises, or template.render raises, or template.save
\* raises, or the reload of the template after the save raises
Outcomes == {"ok", "format", "render", "save", "reload"}

\* the render and the save of the shift both returned
Saved(outcome) == outcome \in {"ok", "reload"}

\* mutant: success_count is incremented before the save
ReachesCountEarly(outcome) == outcome \in {"ok", "reload", "save"}

\* generator.py:152-161  the statements up to success_count += 1 have run
ReachesCount(outcome) == outcome \in {"ok", "reload"}

\* generator.py:166-168  the exception is caught and reported
Caught(outcome) == outcome # "ok"

\* generator.py:153, 164  the instance that template holds after the shift,
\* when it held the instance t before: template.render is called unless
\* format_workflow_table raises, and template is given a new instance when
\* every statement before line 164 has returned and the reload returns
TemplateAfter(outcome, t) ==
    CASE outcome = "ok" -> "fresh"
      [] outcome = "format" -> t
      [] outcome \in {"render", "save", "reload"} ->
           IF t = "fresh" THEN "rendered" ELSE "reused"

\* str.lower() of the two shift types
Lower(shift_type) == IF shift_type = "Lunch" THEN "lunch" ELSE "dinner"

\* generator.py:156  f"shift_{shift['shift_number']:02d}_{shift['shift_type'].lower()}.docx"
filename(shift) == <<"shift", shift.shift_number, Lower(shift.shift_type), "docx">>

\* generator.py:138-146  generate_shifts has returned; the output folder is
\* made and the loop over the shifts begins
start_documents ==
    /\ run_pc = "shifts"
    /\ raised = ""
    /\ shift_pc = "loop"
    /\ ~(i < n_shifts)
    /\ run_pc' = "emit"
    /\ doc_index' = 0
    /\ success_count' = 0
    /\ saved_count' = 0
    /\ UNCHANGED <<doc_printed, result, template, n_shifts, custom_data, loaded_from,
                   loadedVars, asked,
                   choice, i, shift_pc, is_custom, custom_shift, shift_data,
                   custom_count, auto_count, printed, shifts, selectorVars,
                   csvVars, logbookVars, raised, csvDocVars, collectorVars>>

\* generator.py:147-168  one iteration of the loop over the shifts
generate_document ==
    /\ run_pc = "emit"
    /\ doc_index < Len(shifts)
    /\ LET shift == shifts[doc_index + 1]
       IN  \E outcome \in Outcomes :
             /\ saved_count' = IF Saved(outcome) THEN saved_count + 1 ELSE saved_count
             /\ success_count' =
                  IF ReachesCount(outcome) THEN success_count + 1 ELSE success_count
             /\ doc_printed' =
                  IF Caught(outcome)
                  THEN <<"Erro ao gerar shift", shift.shift_number>>
                  ELSE <<"Gerado", filename(shift)>>
             /\ template' = TemplateAfter(outcome, template)
    /\ doc_index' = doc_index + 1
    /\ UNCHANGED <<result, runVars, i, shift_pc, is_custom, custom_shift, shift_data,
                   custom_count, auto_count, printed, shifts, selectorVars,
                   csvVars, logbookVars, raised, csvDocVars, collectorVars>>

\* generator.py:170-181  the final report and return success_count == 48
return_documents ==
    /\ run_pc = "emit"
    /\ ~(doc_index < Len(shifts))
    /\ result' = IF success_count = 48 THEN "True" ELSE "False"
    /\ run_pc' = "done"
    /\ UNCHANGED <<doc_index, success_count, saved_count, doc_printed, template,
                   n_shifts, custom_data, loaded_from, asked, choice, loadedVars, i, shift_pc, is_custom,
                   custom_shift, shift_data, custom_count, auto_count, printed,
                   shifts, selectorVars, csvVars, logbookVars, raised, csvDocVars, collectorVars>>

\* a run of 48 shifts with an empty override set, from the call of
\* generate_documents on
InitEmission ==
    /\ content = [c \in Categories |-> Pool(PoolSize)]
    /\ used_content = [c \in Categories |-> <<>>]
    /\ returned = [c \in Categories |-> <<>>]
    /\ NoShiftYet
    /\ n_shifts = NumShifts
    /\ run_pc = "generate"
    /\ custom_data = "empty"
    /\ loaded_from = "file"
    /\ asked = FALSE
    /\ choice = ""
    /\ NothingLoaded
    /\ NoTableYet
    /\ NoLogbookYet
    /\ NoDocumentYet
    /\ NoCollectorYet
    /\ raised = ""

NextEmission ==
    \/ open_template
    \/ begin_shift
    \/ generate_shift_automatic
    \/ start_documents
    \/ generate_document
    \/ return_documents

SpecEmission == InitEmission /\ [][NextEmission]_vars

----------------------------------------------------------------------------
(* Claims about the emission of the documents *)

\* the step takes a shift of the loop whose render or save fails
FailsToSave == doc_index' = doc_index + 1 /\ saved_count' = saved_count

\* C17: in generate_documents, when rendering or saving fails for a shift, the
\* shift is reported by its number and not counted; the loop can always go on
\* to the next shift, in index order, until all have been taken; success_count
\* is the number of shifts whose render and save both succeeded; and the
\* result is True if and only if all 48 succeeded.
C17_BestEffortEmission ==
    /\ [](/\ success_count = saved_count
          /\ (run_pc = "emit" /\ doc_index < Len(shifts)) => ENABLED generate_document
          /\ (run_pc = "done" /\ Len(shifts) > 0) => doc_index = Len(shifts)
          /\ result # "none" => (result = "True" <=> saved_count = 48))
    /\ [][FailsToSave =>
             /\ doc_printed' = <<"Erro ao gerar shift", shifts[doc_index'].shift_number>>
             /\ success_count' = success_count
             /\ run_pc' = "emit"]_vars

\* generate_documents has returned False after 48 shifts of which one failed
\* and later ones were saved
C17_Witness ==
    /\ run_pc = "done"
    /\ result = "False"
    /\ doc_index = 48
    /\ saved_count = 47
    /\ doc_printed[1] = "Gerado"

\* C26: in generate_documents every shift is rendered on a template instance
\* that has not been used to render an earlier shift, also in runs in which
\* the render or the save of an earlier shift failed: the instance that
\* template holds is never one that render was called on for more than one
\* shift.
C26_FreshTemplatePerShift == template # "reused"

----------------------------------------------------------------------------
(* Claims about the override merge *)

\* the override record of the shift just assembled gives the field a blank value
BlankOverride(field) ==
    /\ shift_pc = "loop"
    /\ is_custom
    /\ field \in DOMAIN custom_shift
    /\ strip(custom_shift[field]) = <<>>

\* the override record of the shift just assembled gives the field a non-blank value
NonBlankOverride(field) ==
    /\ shift_pc = "loop"
    /\ is_custom
    /\ field \in DOMAIN custom_shift
    /\ strip(custom_shift[field]) # <<>>

\* the texts the pools can give a field
PoolTexts(field, shift_type) ==
    IF field = "prepared_service"
    THEN {prepared_service_pool[shift_type]}
    ELSE Range(content[field])

\* C3: for a shift that has an override record, every narrative field of the
\* assembled record (prepared_service and the fields of the merge loop) whose
\* override value is empty or blank holds a value of the content pools, never
\* the blank text.
C3_BlankOverrideFallsToPool ==
    \A field \in CustomFields :
        BlankOverride(field) =>
            /\ shift_data[field] \in PoolTexts(field, ShiftType(i - 1))
            /\ strip(shift_data[field]) # <<>>

MergedWithoutOverride(field) ==
    /\ i' = i + 1
    /\ is_custom'
    /\ ~(field \in DOMAIN custom_shift' /\ strip(custom_shift'[field]) # <<>>)

\* C5: when a shift has an override record in which a narrative field is absent
\* or blank, the field is resolved by the variety selector with the category's
\* history: the value is one get_varied_content can return for that history (not
\* a value in used_content[category] when another candidate exists) and it is
\* appended to used_content[category].
C5_BlankFieldUsesSelector ==
    [][\A field \in NarrativeFields :
          MergedWithoutOverride(field) =>
              /\ shift_data'[field] \in Selectable(field)
              /\ used_content'[field] = HistoryAfter(field, shift_data'[field])]_vars

----------------------------------------------------------------------------
(* Claims about the schedule and the run without overrides *)

\* generate_shifts has left its loop
ShiftsGenerated == run_pc = "shifts" /\ shift_pc = "loop" /\ ~(i < n_shifts)

\* C14: generate_shifts produces exactly 48 slots in order; the slot at
\* 0-based position k has shift_number k + 1, the date start_date + k \div 2
\* days and the type Lunch when k is even and Dinner when k is odd, in every
\* run, whatever values the content selection draws.
C14_ScheduleIsFunctionOfIndex ==
    /\ ShiftsGenerated => Len(shifts) = NumShifts
    /\ \A k \in 0..(Len(shifts) - 1) :
         /\ shifts[k + 1].shift_number = k + 1
         /\ shifts[k + 1].date = k \div 2
         /\ shifts[k + 1].shift_type = IF k % 2 = 0 THEN "Lunch" ELSE "Dinner"

\* the 48 slots have been produced, the last of them a dinner on the 24th day
C14_Witness ==
    /\ ShiftsGenerated
    /\ Len(shifts) = NumShifts
    /\ shifts[NumShifts].shift_type = "Dinner"
    /\ shifts[NumShifts].date = 23

\* the record of the shift just assembled holds a value of its pool in every
\* narrative field
FieldsFromPools ==
    (shift_pc = "loop" /\ i > 0) =>
        \A field \in CustomFields :
            shift_data[field] \in PoolTexts(field, ShiftType(i - 1))

----------------------------------------------------------------------------
(* CSVProcessor, csv_processor.py                                           *)
(*                                                                          *)
(* fill_missing_data and generate_summary_report each loop over the rows of *)
(* the table and carry nothing from one row to the next but the two counts  *)
(* of the report.  The model reads the table row by row: a row is read,     *)
(* filled and counted before the next one is read, and the loop variables   *)
(* are empty between two rows.                                              *)

\* a missing cell of the table (pandas NaN): pd.isna is true of it alone
NaN == <<"NaN">>

\* pd.isna(cell)
isna(cell) == cell = NaN

\* the cells of an input table: missing, empty, blanks, a user text, and a user
\* text equal to the first text of the pools
CsvCells == {NaN, <<>>, <<" ">>, <<"u">>, <<PoolLetters[1]>>}

\* csv_processor.py:109-126  the columns fill_missing_data fills
CsvFields ==
    {"food_details", "special_requests", "complaints_problems",
     "solutions_implemented", "debrief_learnings"}

\* csv_processor.py:110-126, 256-262  the pool of each column
PoolKey(field) ==
    CASE field = "food_details" -> "food_details"
      [] field = "special_requests" -> "special_requests"
      [] field = "complaints_problems" -> "problems"
      [] field = "solutions_implemented" -> "solutions"
      [] field = "debrief_learnings" -> "learnings"

\* csv_processor.py:49-75  the keys of content_pools
CsvPoolKeys == {PoolKey(field) : field \in CsvFields}

\* csv_processor.py:109  pd.isna(row[col]) or row[col] == ''
NeedsFill(cell) == isna(cell) \/ cell = <<>>

\* csv_processor.py:107  the next row of filled_df = df.copy()
read_row ==
    /\ pc = "idle"
    /\ rows_read < MaxRows
    /\ \E r \in [CsvFields -> CsvCells] :
         /\ row' = r
         /\ filled_row' = r
    /\ rows_read' = rows_read + 1
    /\ pc' = "read"
    /\ UNCHANGED <<step, manual_count, report_auto_count, besidesCsv>>

\* mutant: the cells are filled in the input table, without the copy
fill_missing_data_in_place ==
    /\ pc = "read"
    /\ \E sampled \in [CsvFields -> UNION {Range(content[k]) : k \in CsvPoolKeys}] :
         /\ \A field \in CsvFields : sampled[field] \in Range(content[PoolKey(field)])
         /\ filled_row' =
              [field \in CsvFields |->
                  IF NeedsFill(row[field]) THEN sampled[field] ELSE filled_row[field]]
    /\ row' = filled_row'
    /\ pc' = "filled"
    /\ UNCHANGED <<rows_read, step, manual_count, report_auto_count, besidesCsv>>

\* csv_processor.py:107-126  fill_missing_data, one row
fill_missing_data ==
    /\ pc = "read"
    /\ \E sampled \in [CsvFields -> UNION {Range(content[k]) : k \in CsvPoolKeys}] :
         /\ \A field \in CsvFields : sampled[field] \in Range(content[PoolKey(field)])
         /\ filled_row' =
              [field \in CsvFields |->
                  IF NeedsFill(row[field]) THEN sampled[field] ELSE filled_row[field]]
    /\ pc' = "filled"
    /\ UNCHANGED <<row, rows_read, step, manual_count, report_auto_count,
                   besidesCsv>>

\* csv_processor.py:256-262  a row counts as automatic when some column holds a
\* text of that column's pool
CountsAsAutomatic(r) ==
    \E field \in CsvFields : r[field] \in Range(content[PoolKey(field)])

\* csv_processor.py:255-265  generate_summary_report, one row of df_filled
generate_summary_report ==
    /\ pc = "filled"
    /\ IF CountsAsAutomatic(filled_row)
       THEN /\ report_auto_count' = report_auto_count + 1
            /\ UNCHANGED manual_count
       ELSE /\ manual_count' = manual_count + 1
            /\ UNCHANGED report_auto_count
    /\ pc' = "idle"
    /\ row' = <<>>
    /\ filled_row' = <<>>
    /\ UNCHANGED <<rows_read, step, besidesCsv>>

InitCsv ==
    /\ content = [k \in CsvPoolKeys |-> Pool(PoolSize)]
    /\ used_content = [c \in Categories |-> <<>>]
    /\ returned = [c \in Categories |-> <<>>]
    /\ NoShiftYet
    /\ NoRunYet
    /\ NoTableYet
    /\ NoLogbookYet
    /\ NoDocumentYet
    /\ NoCollectorYet
    /\ raised = ""

NextCsv ==
    \/ read_row
    \/ fill_missing_data
    \/ generate_summary_report

SpecCsv == InitCsv /\ [][NextCsv]_vars

----------------------------------------------------------------------------
(* Claims about the tabular path *)

\* a blank cell: missing, empty, or of blanks only
BlankCell(cell) == isna(cell) \/ strip(cell) = <<>>

\* C8: fill_missing_data replaces a cell that is blank (missing, empty, or
\* consisting only of blanks) by a text of the column's pool, and keeps a cell
\* that is non-blank after trimming unchanged.
C8_BlankCellsFilled ==
    pc = "filled" =>
        \A field \in CsvFields :
            IF BlankCell(row[field])
            THEN filled_row[field] \in Range(content[PoolKey(field)])
            ELSE filled_row[field] = row[field]

\* fill_missing_data drew a text of the pool for the column of the row
PoolResolved(field) == NeedsFill(row[field])

\* C9: the report counts a row as automatic if and only if fill_missing_data
\* resolved a column of it from the pools, and as manual if and only if all its
\* columns were supplied by the user, also when a user text equals a pool text
\* and when a row mixes user texts and pool texts.
C9_ReportCountsExact ==
    [][pc = "filled" /\ pc' = "idle" =>
          IF \E field \in CsvFields : PoolResolved(field)
          THEN /\ report_auto_count' = report_auto_count + 1
               /\ manual_count' = manual_count
          ELSE /\ manual_count' = manual_count + 1
               /\ report_auto_count' = report_auto_count]_vars

----------------------------------------------------------------------------
(* CSVProcessorCompleto.fill_missing_data, csv_processor_completo.py:132-180 *)
(*                                                                           *)
(* For one row the function runs 17 blocks in order: the two basic columns,  *)
(* the 8 content columns, the 8 rows of the workflow table.  A block reads   *)
(* and writes its own columns and shift_type only, so the model holds the    *)
(* columns of the block at hand: they are read, filled, and left behind      *)
(* before the next block is read.                                            *)

\* csv_processor_completo.py:161  for i in range(1, 9)
WorkflowRows == 8

\* csv_processor_completo.py:145-154  content_fields, in order
ContentFields ==
    <<"prepared_for_service", "special_requests", "food_details",
      "complaints_problems", "solutions_implemented", "debrief_learnings",
      "handover_completed", "customer_feedback">>

\* the blocks of one row: 1 the basic columns, 2..9 the content columns,
\* 10..17 the workflow rows
LastStep == 1 + Len(ContentFields) + WorkflowRows

IsBasicStep(n) == n = 1

IsContentStep(n) == n \in 2..(1 + Len(ContentFields))

IsWorkflowStep(n) == n \in (2 + Len(ContentFields))..LastStep

\* the content column of a content block
ContentField(n) == ContentFields[n - 1]

\* the workflow row i of a workflow block
WorkflowRow(n) == n - 1 - Len(ContentFields)

\* csv_processor_completo.py:162-165  the four columns of a workflow row
WorkflowColumns == {"timeline", "task", "equipment", "communication"}

\* the columns a block reads and writes, besides shift_type
StepColumns(n) ==
    IF IsBasicStep(n) THEN {"establishment", "menu_style"}
    ELSE IF IsContentStep(n) THEN {ContentField(n)}
    ELSE WorkflowColumns

\* the cells of an input table: missing, empty, blanks, a user text
CompletoCells == {NaN, <<>>, <<" ">>, <<"u">>}

\* csv_processor_completo.py:169  the values of the shift_type column
ShiftTypes == {"lunch", "dinner"}

\* csv_processor_completo.py:38-39, 139, 142  self.config.get(key, default)
config == [establishment |-> <<"E">>, menu_style |-> <<"M">>]

\* csv_processor_completo.py:170, 172  base_times
base_times(shift_type) ==
    IF shift_type = "lunch"
    THEN << <<"10:30">>, <<"11:00">>, <<"12:00">>, <<"13:00">>,
            <<"14:00">>, <<"15:00">>, <<"15:30">>, <<"16:00">> >>
    ELSE << <<"16:00">>, <<"17:00">>, <<"18:00">>, <<"19:00">>,
            <<"20:00">>, <<"21:00">>, <<"21:30">>, <<"22:00">> >>

\* csv_processor_completo.py:176-178  the pool of a workflow column
WorkflowPoolKey(column) ==
    CASE column = "task" -> "workflow_tasks"
      [] column = "equipment" -> "workflow_equipment"
      [] column = "communication" -> "workflow_communication"

\* csv_processor_completo.py:49-120  the keys of content_pools that are read
CompletoPoolKeys ==
    Range(ContentFields) \cup
    {WorkflowPoolKey(column) : column \in WorkflowColumns \ {"timeline"}}

\* csv_processor_completo.py:136  the columns of the next block of the row (of
\* the next row after the last block) are read from filled_df = df.copy()
read_columns ==
    /\ pc = "idle"
    /\ IF step % LastStep = 0
       THEN /\ rows_read < MaxRows
            /\ rows_read' = rows_read + 1
            /\ step' = 1
            /\ \E shift_type \in ShiftTypes :
               \E cells \in [StepColumns(1) -> CompletoCells] :
                 row' = [c \in {"shift_type"} \cup StepColumns(1) |->
                            IF c = "shift_type" THEN shift_type ELSE cells[c]]
       ELSE /\ UNCHANGED rows_read
            /\ step' = step + 1
            /\ \E cells \in [StepColumns(step + 1) -> CompletoCells] :
                 row' = [c \in {"shift_type"} \cup StepColumns(step + 1) |->
                            IF c = "shift_type" THEN row["shift_type"] ELSE cells[c]]
    /\ filled_row' = row'
    /\ pc' = "read"
    /\ UNCHANGED <<manual_count, report_auto_count, besidesCsv>>

\* csv_processor_completo.py:138-142  establishment and menu_style
fill_basic_fields ==
    /\ pc = "read"
    /\ IsBasicStep(step)
    /\ filled_row' =
         [c \in DOMAIN filled_row |->
             IF c \in StepColumns(step) /\ NeedsFill(row[c])
             THEN config[c]
             ELSE filled_row[c]]
    /\ pc' = "filled"
    /\ UNCHANGED <<row, rows_read, step, manual_count, report_auto_count,
                   besidesCsv>>

\* csv_processor_completo.py:156-158  one content column
fill_content_field ==
    /\ pc = "read"
    /\ IsContentStep(step)
    /\ LET field == ContentField(step)
       IN  \E sampled \in Range(content[field]) :
             filled_row' =
               [filled_row EXCEPT
                  ![field] = IF NeedsFill(row[field]) THEN sampled ELSE @]
    /\ pc' = "filled"
    /\ UNCHANGED <<row, rows_read, step, manual_count, report_auto_count,
                   besidesCsv>>

\* csv_processor_completo.py:167-178  one row of the workflow table
fill_workflow_row ==
    /\ pc = "read"
    /\ IsWorkflowStep(step)
    /\ IF NeedsFill(row["timeline"])
       THEN \E task \in Range(content[WorkflowPoolKey("task")]) :
            \E equipment \in Range(content[WorkflowPoolKey("equipment")]) :
            \E communication \in Range(content[WorkflowPoolKey("communication")]) :
              filled_row' =
                [filled_row EXCEPT
                   !["timeline"] = base_times(row["shift_type"])[WorkflowRow(step)],
                   !["task"] = task,
                   !["equipment"] = equipment,
                   !["communication"] = communication]
       ELSE UNCHANGED filled_row
    /\ pc' = "filled"
    /\ UNCHANGED <<row, rows_read, step, manual_count, report_auto_count,
                   besidesCsv>>

\* the block is done: the loop goes on to the next block
next_columns ==
    /\ pc = "filled"
    /\ row' = [c \in {"shift_type"} |-> row["shift_type"]]
    /\ filled_row' = row'
    /\ pc' = "idle"
    /\ UNCHANGED <<rows_read, step, manual_count, report_auto_count,
                   besidesCsv>>

InitCompleto ==
    /\ content = [k \in CompletoPoolKeys |-> Pool(PoolSize)]
    /\ used_content = [c \in Categories |-> <<>>]
    /\ returned = [c \in Categories |-> <<>>]
    /\ NoShiftYet
    /\ NoRunYet
    /\ NoTableYet
    /\ NoLogbookYet
    /\ NoDocumentYet
    /\ NoCollectorYet
    /\ raised = ""

NextCompleto ==
    \/ read_columns
    \/ fill_basic_fields
    \/ fill_content_field
    \/ fill_workflow_row
    \/ next_columns

SpecCompleto == InitCompleto /\ [][NextCompleto]_vars

----------------------------------------------------------------------------
(* Claims about the complete tabular path *)

\* C6: for every workflow row the four cells are resolved independently: a
\* cell that is non-blank in the input keeps its input value in the output,
\* whatever the other three cells hold; only blank cells receive a generated
\* value.
C6_WorkflowCellsIndependent ==
    (pc = "filled" /\ IsWorkflowStep(step)) =>
        \A c \in WorkflowColumns :
            ~BlankCell(row[c]) => filled_row[c] = row[c]

\* C7: every column of a record fill_missing_data returns is populated: it is
\* neither missing nor empty.
C7_AllFieldsPopulated ==
    pc = "filled" =>
        \A c \in StepColumns(step) : ~NeedsFill(filled_row[c])

----------------------------------------------------------------------------
(* logbook_generator.py: the recipe rotation with the gap-based selector *)

\* logbook_generator.py:73-77, 81-83  the categories, in the order of the calls
RecipeCategories == <<"proteins", "sauces", "accompaniments">>

\* logbook_generator.py:71  pattern
pattern == <<"Preparation", "Sauce", "Garnish">>

\* logbook_generator.py:60-66  get_observation(shift)
get_observation(shift) ==
    IF shift = "Preparation" THEN "General mise en place for service."
    ELSE IF shift = "Sauce" THEN "Sauce station duties following recipes."
    ELSE "Garnish and finishing touches during service."

\* a history without entries (defaultdict(int) before any assignment)
EmptyHistory == [r \in {} |-> 0]

\* mutant: an item is available again one day early
availableOneDayEarly(item_list, history, d, gap) ==
    SelectSeq(item_list,
              LAMBDA r : r \notin DOMAIN history \/ d - history[r] >= gap - 1)

\* logbook_generator.py:50  available = [r for r in item_list
\*                              if r not in history or day - history[r] >= gap]
available(item_list, history, d, gap) ==
    SelectSeq(item_list, LAMBDA r : r \notin DOMAIN history \/ d - history[r] >= gap)

\* logbook_generator.py:51-54  the history after the test of available
HistoryToUse(item_list, history, d, gap) ==
    IF available(item_list, history, d, gap) = <<>> THEN EmptyHistory ELSE history

\* logbook_generator.py:51-55  the list random.choice draws from
ChoiceList(item_list, history, d, gap) ==
    IF available(item_list, history, d, gap) = <<>>
    THEN item_list
    ELSE available(item_list, history, d, gap)

\* mutant: the history is not cleared before the choice is recorded
RecordChoiceUncleared(item_list, history, d, gap, chosen) ==
    [r \in DOMAIN history \cup {chosen} |-> IF r = chosen THEN d ELSE history[r]]

\* logbook_generator.py:51-56  history.clear() when nothing is available, then
\* history[choice] = day
RecordChoice(item_list, history, d, gap, chosen) ==
    LET h == HistoryToUse(item_list, history, d, gap)
    IN  [r \in DOMAIN h \cup {chosen} |-> IF r = chosen THEN d ELSE h[r]]

\* mutant: the shift changes every day
ShiftOfDayAlternating(d) == pattern[((d - 1) % Len(pattern)) + 1]

\* logbook_generator.py:80  the shift of a day
ShiftOfDay(d) == pattern[(((d - 1) \div rotation) % Len(pattern)) + 1]

\* the categories called before category number n fails
CategoriesBefore(n) == {RecipeCategories[k] : k \in 1..(n - 1)}

\* logbook_generator.py:55, 81-83  the values the call of _choose_unique for
\* category c can return on day d
Choices(c, d) == Range(ChoiceList(recipes[c], histories[c], d, Gap))

\* logbook_generator.py:79-90  one iteration of the loop: the three calls of
\* _choose_unique return and the entry of the day is appended
generate_shift_day ==
    /\ raised = ""
    /\ day < days
    /\ \A c \in Range(RecipeCategories) : recipes[c] # <<>>
    /\ LET d == day + 1
           shift == ShiftOfDay(d)
       IN  /\ \E protein \in Choices("proteins", d) :
              \E sauce \in Choices("sauces", d) :
              \E accompaniment \in Choices("accompaniments", d) :
                 LET chosen == [proteins |-> protein, sauces |-> sauce,
                                accompaniments |-> accompaniment]
                 IN  /\ histories' =
                          [c \in Range(RecipeCategories) |->
                              RecordChoice(recipes[c], histories[c], d, Gap, chosen[c])]
                     /\ last_use' =
                          [c \in Range(RecipeCategories) |->
                              [r \in Range(recipes[c]) |->
                                  IF r = chosen[c] THEN d
                                  ELSE IF d - last_use[c][r] < Gap THEN last_use[c][r]
                                  ELSE 0]]
           /\ data' = Append(data, [shift |-> shift, obs |-> get_observation(shift)])
           /\ day' = d
    /\ UNCHANGED <<recipes, days, raised, besidesLogbook>>

\* logbook_generator.py:55, 81-83  random.choice raises IndexError on the empty
\* list of the first category that has no recipes; the calls before it have
\* recorded their choices, no entry is appended, and the exception leaves
\* generate_shift_data and main
generate_shift_day_raises ==
    /\ raised = ""
    /\ day < days
    /\ \E n \in 1..Len(RecipeCategories) :
         /\ recipes[RecipeCategories[n]] = <<>>
         /\ \A c \in CategoriesBefore(n) : recipes[c] # <<>>
         /\ \E chosen \in [CategoriesBefore(n) ->
                             UNION {Range(recipes[c]) : c \in Range(RecipeCategories)}] :
              /\ \A c \in CategoriesBefore(n) : chosen[c] \in Choices(c, day + 1)
              /\ histories' =
                   [c \in Range(RecipeCategories) |->
                       IF c \in CategoriesBefore(n)
                       THEN RecordChoice(recipes[c], histories[c], day + 1, Gap, chosen[c])
                       ELSE histories[c]]
    /\ raised' = "IndexError"
    /\ UNCHANGED <<recipes, days, day, data, last_use, besidesLogbook>>

\* a book of recipes in which category c has K recipes and the others have one
RecipeBook(c, K) ==
    [b \in Range(RecipeCategories) |-> IF b = c THEN Pool(K) ELSE Pool(1)]

\* the books of the runs: every category goes through the same code with a
\* history of its own, so the short lists are given to each category in turn
\* and the long ones to the proteins
RecipeBooks(maxItems) ==
    {RecipeBook(c, K) : c \in Range(RecipeCategories), K \in 0..2}
    \cup {RecipeBook("proteins", K) : K \in 3..maxItems}

\* generate_shift_data(recipes, days) is called
InitLogbookWith(books, dayCounts) ==
    /\ recipes \in books
    /\ days \in dayCounts
    /\ day = 0
    /\ histories = [c \in Range(RecipeCategories) |-> EmptyHistory]
    /\ data = <<>>
    /\ last_use = [c \in Range(RecipeCategories) |-> [r \in Range(recipes[c]) |-> 0]]
    /\ raised = ""
    /\ content = <<>>
    /\ used_content = <<>>
    /\ returned = <<>>
    /\ NoShiftYet
    /\ NoRunYet
    /\ NoTableYet
    /\ NoDocumentYet
    /\ NoCollectorYet

\* runs of up to MaxDays days over books with up to MaxItems recipes
InitGap ==
    InitLogbookWith(RecipeBooks(MaxItems), {MaxDays})

NextLogbook ==
    \/ generate_shift_day
    \/ generate_shift_day_raises

SpecGap == InitGap /\ [][NextLogbook]_vars

\* runs of MaxDays days and of the 45 days of main over books with short lists
InitRotation ==
    InitLogbookWith(RecipeBooks(2), {MaxDays, DefaultDays})

SpecRotation == InitRotation /\ [][NextLogbook]_vars

\* the books whose list of proteins has at least Gap recipes
LongBooks(maxItems) == {RecipeBook("proteins", K) : K \in Gap..maxItems}

\* the days on which the first n items of a list were chosen, in list order
InListOrder(item_list, n) ==
    [r \in {item_list[k] : k \in 1..n} |->
        CHOOSE k \in 1..n : item_list[k] = r]

\* the days on which the items of a list of one recipe were chosen when n days
\* have been generated
OnlyItem(item_list, n) == [r \in Range(item_list) |-> n]

\* a book with a list of Gap proteins and no accompaniments: the call for the
\* proteins returns, and a later call of the same day raises
LongBookWithEmptyList ==
    [RecipeBook("proteins", Gap) EXCEPT !["accompaniments"] = <<>>]

\* generate_shift_data(recipes, days) is called with a list of Gap proteins
InitLongBookCalled ==
    InitLogbookWith(LongBooks(Gap) \cup {LongBookWithEmptyList}, {Gap + 1})

\* generate_shift_data(recipes, days) has generated Gap - 1 days over a list
\* of at least Gap proteins: it has chosen Gap - 1 different proteins, here the
\* first ones of the list in list order
InitLongBookUnderWay ==
    /\ recipes \in LongBooks(MaxLongItems)
    /\ days = MaxLongDays
    /\ day = Gap - 1
    /\ histories =
         [c \in Range(RecipeCategories) |->
             IF c = "proteins"
             THEN InListOrder(recipes[c], Gap - 1)
             ELSE OnlyItem(recipes[c], Gap - 1)]
    /\ data =
         [d \in 1..(Gap - 1) |->
             [shift |-> ShiftOfDay(d), obs |-> get_observation(ShiftOfDay(d))]]
    /\ last_use =
         [c \in Range(RecipeCategories) |->
             [r \in Range(recipes[c]) |->
                 IF r \in DOMAIN histories[c] THEN histories[c][r] ELSE 0]]
    /\ raised = ""
    /\ content = <<>>
    /\ used_content = <<>>
    /\ returned = <<>>
    /\ NoShiftYet
    /\ NoRunYet
    /\ NoTableYet
    /\ NoDocumentYet
    /\ NoCollectorYet

InitLongBook == InitLongBookCalled \/ InitLongBookUnderWay

SpecLongBook == InitLongBook /\ [][NextLogbook]_vars

----------------------------------------------------------------------------
(* Claims about the gap-based selector *)

\* the items of category c that no entry of the last Gap days holds
UnusedInGap(c) == {r \in Range(recipes[c]) : last_use[c][r] = 0}

\* C12: _choose_unique, called once per day with consecutive day numbers,
\* never returns on day d a value it returned on one of the Gap preceding days
\* d-Gap .. d-1, as long as at least one candidate of the pool was not used in
\* those days.
C12_NoReuseWithinGap ==
    [][\A c \in Range(RecipeCategories) :
          (day' = day + 1 /\ UnusedInGap(c) # {}) =>
              \A r \in Range(recipes[c]) :
                  last_use'[c][r] = day' => r \in UnusedInGap(c)]_vars

\* no candidate of category c qualifies on the day the step generates
NothingAvailable(c) == available(recipes[c], histories[c], day + 1, Gap) = <<>>

\* C13: when every category has recipes, the run never ends with an exception
\* and the next day can always be generated; and in every step that generates
\* a day on which no candidate of a category qualifies, the history of the
\* category ends up holding one entry only: a member of the pool, the value
\* chosen for the day, mapped to the day.
C13_GapSelectorNeverStarves ==
    /\ []((\A c \in Range(RecipeCategories) : recipes[c] # <<>>) =>
             /\ raised = ""
             /\ day < days => ENABLED generate_shift_day)
    /\ [][\A c \in Range(RecipeCategories) :
             (day' = day + 1 /\ NothingAvailable(c)) =>
                 \E r \in Range(recipes[c]) :
                     /\ histories'[c] = [x \in {r} |-> day']
                     /\ last_use'[c][r] = day']_vars

\* the history of a category with at least 2 recipes was cleared on a day
\* later than the first: it holds the value of the day and nothing else
C13_Witness ==
    \E c \in Range(RecipeCategories) :
        /\ Len(recipes[c]) >= 2
        /\ day > Len(recipes[c])
        /\ \E r \in Range(recipes[c]) :
             /\ histories[c] = [x \in {r} |-> day]
             /\ last_use[c][r] = day

\* C25: for a list of at least Gap (8) distinct recipes, no day of a run of
\* generate_shift_data clears the history of the category, and the value chosen
\* for a day was not chosen on any of the 7 days before it: two days with the
\* same value are at least 8 days apart.
C25_LongListKeepsGap ==
    [][\A c \in Range(RecipeCategories) :
          (day' = day + 1 /\ Len(recipes[c]) >= Gap) =>
              /\ ~NothingAvailable(c)
              /\ DOMAIN histories[c] \subseteq DOMAIN histories'[c]
              /\ \A r \in Range(recipes[c]) :
                    last_use'[c][r] = day' =>
                        (last_use[c][r] = 0 \/ day' - last_use[c][r] >= Gap)]_vars

\* more days than the list has recipes have been generated over a list of Gap
\* recipes: every recipe has been chosen, and one of them twice
C25_Witness ==
    \E c \in Range(RecipeCategories) :
        /\ Len(recipes[c]) = Gap
        /\ day > Gap
        /\ DOMAIN histories[c] = Range(recipes[c])

----------------------------------------------------------------------------
(* Claims about the rotation of the shifts *)

\* the number of entries of data with the given shift
DaysOf(shift) == Cardinality({d \in 1..Len(data) : data[d].shift = shift})

\* C16: generate_shift_data(days = n) returns n entries in day order; day d
\* (1-based) has the shift of its block of 5 days, the blocks taking
\* Preparation, Sauce, Garnish in turn; the shift changes only between day 5k
\* and day 5k + 1; and over 45 days each shift is given to exactly 15 days.
C16_BlockRotation ==
    /\ Len(data) = day
    /\ (raised = "" /\ ~(day < days)) => Len(data) = days
    /\ \A d \in 1..Len(data) :
         LET block == (d - 1) \div 5
         IN  data[d].shift = CASE block % 3 = 0 -> "Preparation"
                               [] block % 3 = 1 -> "Sauce"
                               [] block % 3 = 2 -> "Garnish"
    /\ \A d \in 1..(Len(data) - 1) :
         data[d].shift # data[d + 1].shift => d % 5 = 0
    /\ Len(data) = 45 =>
         \A shift \in Range(pattern) : DaysOf(shift) = 15

\* a run of 45 days has returned
C16_Witness ==
    /\ days = DefaultDays
    /\ Len(data) = 45
    /\ data[45].shift = "Garnish"
    /\ data[16].shift = "Preparation"

----------------------------------------------------------------------------
(* Runs over pools that may be empty *)

\* generator_custom.py:139-140  the categories in the order generate_automatic_data
\* calls get_varied_content for them
SelectionOrder == <<"special_requests", "food_details">>

\* the categories selected before the category number n of the order
SelectedBefore(n) == {SelectionOrder[k] : k \in 1..(n - 1)}

\* generator.py:94-97, generator_custom.py:102-104  the automatic branch for a
\* shift when a category has an empty pool: the calls of get_varied_content
\* before it return and record their values, then random.choice raises
\* IndexError on the empty list; nothing catches it before main, which prints
\* it and exits
generate_shift_automatic_raises ==
    /\ run_pc = "shifts"
    /\ shift_pc = "branch"
    /\ ~is_custom
    /\ \E n \in 1..Len(SelectionOrder) :
         /\ content[SelectionOrder[n]] = <<>>
         /\ \A c \in SelectedBefore(n) : content[c] # <<>>
         /\ \E selected \in [SelectedBefore(n) ->
                               UNION {Range(content[f]) : f \in NarrativeFields}] :
              /\ \A c \in SelectedBefore(n) : selected[c] \in Selectable(c)
              /\ used_content' =
                   [c \in Categories |->
                       IF c \in SelectedBefore(n)
                       THEN HistoryAfter(c, selected[c])
                       ELSE IF c = SelectionOrder[n]
                       THEN AfterReset(used_content[c], content[c])
                       ELSE used_content[c]]
    /\ raised' = "IndexError"
    /\ run_pc' = "exit"
    /\ UNCHANGED <<n_shifts, custom_data, loaded_from, asked, choice, loadedVars, i, shift_pc,
                   is_custom, custom_shift, shift_data, custom_count, auto_count,
                   printed, shifts, content, returned, csvVars, logbookVars,
                   docVars, csvDocVars, collectorVars>>

\* a run of generate_documents over pools of which any may be empty
InitEmptyContent ==
    /\ content \in [Categories -> {Pool(0), Pool(PoolSize)}]
    /\ used_content = [c \in Categories |-> <<>>]
    /\ returned = [c \in Categories |-> <<>>]
    /\ NoShiftYet
    /\ n_shifts = NumShifts
    /\ run_pc = "generate"
    /\ custom_data = "empty"
    /\ loaded_from = "file"
    /\ asked = FALSE
    /\ choice = ""
    /\ NothingLoaded
    /\ NoTableYet
    /\ NoLogbookYet
    /\ NoDocumentYet
    /\ NoCollectorYet
    /\ raised = ""

\* a run of generate_shift_data over a book of which a category may be empty
InitEmptyRecipes == InitLogbookWith(RecipeBooks(2), {MaxDays})

\* one program or the other is run
InitEmptyPool == InitEmptyContent \/ InitEmptyRecipes

NextEmptyPool ==
    \/ open_template
    \/ begin_shift
    \/ generate_shift_automatic
    \/ generate_shift_automatic_raises
    \/ start_documents
    \/ generate_document
    \/ return_documents
    \/ generate_shift_day
    \/ generate_shift_day_raises

SpecEmptyPool == InitEmptyPool /\ [][NextEmptyPool]_vars

\* C18: selecting from a category whose pool is empty fails with
\* EmptyPoolError, in the count-based selector and in the gap-based selector
\* alike; the failure ends the run, and no record is assembled or emitted
\* after it.
C18_EmptyPoolError ==
    /\ [](raised # "" => raised = "EmptyPoolError")
    /\ [][raised # "" =>
             UNCHANGED <<shifts, shift_data, data, doc_index, saved_count>>]_vars

----------------------------------------------------------------------------
(* CSVProcessor.generate_documents, csv_processor.py:130-173                *)
(* (CSVProcessorCompleto.generate_documents, csv_processor_completo.py:182- *)
(* 240, names its files the same way)                                       *)

\* the values of the columns shift_number, date and shift_type of the table
CsvShiftNumbers == {1, 2, 3}
CsvDates == {"01/07", "02/07"}
CsvShiftTypes == {"lunch", "dinner"}

\* csv_processor.py:163
\* f"shift_{row['shift_number']:02d}_{row['date']}_{row['shift_type']}.docx"
output_filename(shift_number, date, shift_type) ==
    <<"shift", shift_number, date, shift_type, "docx">>

\* the rows written to a file of the output folder so far
WrittenTo(name) == IF name \in DOMAIN files THEN files[name] ELSE <<>>

\* csv_processor.py:143-171  one iteration of the loop over the rows of df:
\* the document of the row is written to the file of its name, replacing the
\* file when there is one, or create_document raises and the row is reported
generate_document_of_row ==
    /\ rows_done < MaxRows
    /\ \E shift_number \in CsvShiftNumbers, date \in CsvDates,
          shift_type \in CsvShiftTypes, written \in BOOLEAN :
         LET name == output_filename(shift_number, date, shift_type)
         IN  IF written
             THEN /\ files' =
                       [f \in DOMAIN files \cup {name} |->
                           IF f = name
                           THEN Append(WrittenTo(name), rows_done + 1)
                           ELSE files[f]]
                  /\ successful_docs' = successful_docs + 1
             ELSE UNCHANGED <<files, successful_docs>>
    /\ rows_done' = rows_done + 1
    /\ UNCHANGED <<selectorVars, customVars, csvVars, logbookVars, raised, docVars,
                   collectorVars>>

InitCsvDocuments ==
    /\ content = [k \in CsvPoolKeys |-> Pool(PoolSize)]
    /\ used_content = [c \in Categories |-> <<>>]
    /\ returned = [c \in Categories |-> <<>>]
    /\ NoShiftYet
    /\ NoRunYet
    /\ NoTableYet
    /\ NoLogbookYet
    /\ NoDocumentYet
    /\ NoCollectorYet
    /\ raised = ""

NextCsvDocuments == generate_document_of_row

SpecCsvDocuments == InitCsvDocuments /\ [][NextCsvDocuments]_vars

\* C20: each record of a run is written to exactly one artifact, whose name is
\* a function of its shift number, its date and its kind, and no two records
\* of the run get the same name: no file of the output folder is written twice.
C20_ArtifactNamesDistinct ==
    /\ successful_docs = Cardinality(DOMAIN files)
    /\ \A name \in DOMAIN files : Len(files[name]) = 1

----------------------------------------------------------------------------
(* The assembly of the three programs, side by side *)

\* csv_processor.py:49-75  the object is a CSVProcessor: its pools have the
\* keys of that class
IsCsvProcessor == DOMAIN content = CsvPoolKeys

\* csv_processor_completo.py:49-120  the object is a CSVProcessorCompleto
IsCsvProcessorCompleto == DOMAIN content = CompletoPoolKeys

\* generator_custom.py:19-24  the object is a CustomLogbookGenerator
IsCustomLogbookGenerator == DOMAIN content = Categories

\* one of the three programs is started
InitAssembly == InitCsv \/ InitCompleto \/ InitCustom

NextAssembly ==
    \/ IsCsvProcessor /\ NextCsv
    \/ IsCsvProcessorCompleto /\ NextCompleto
    \/ IsCustomLogbookGenerator /\ NextCustom

SpecAssembly == InitAssembly /\ [][NextAssembly]_vars

\* C21: the assembly never mutates its inputs: fill_missing_data of both CSV
\* processors fills a copy and leaves the row of the input table as it was;
\* merge_custom_data and generate_shifts leave the override record of the shift
\* and custom_data as they were; and no step changes a content pool.
C21_InputsNotMutated ==
    [][/\ (pc = "read" /\ pc' = "filled") => row' = row
       /\ content' = content
       /\ shift_pc = "branch" =>
            (custom_shift' = custom_shift /\ custom_data' = custom_data)]_vars

\* fill_missing_data has replaced a cell of a row of the CSVProcessor by a text
\* of a pool, and the row of the input still holds the empty cell
C21_Witness ==
    /\ IsCsvProcessor
    /\ pc = "filled"
    /\ row["food_details"] = <<>>
    /\ filled_row["food_details"] \in Range(content["food_details"])

----------------------------------------------------------------------------
(* ShiftInputCollector.get_user_choice_or_custom, input_collector.py:131-183 *)

\* str.lower() of the characters the answers are typed with
lowercase(t) ==
    [k \in 1..Len(t) |->
        IF t[k] = "C" THEN "c" ELSE IF t[k] = "R" THEN "r" ELSE t[k]]

\* the answers the user can type at the first prompt
FirstAnswers ==
    {<<"c">>, <<"C">>, <<" ", "c">>, <<"r">>, <<"1">>, <<"9">>, <<>>, <<"x">>}

\* the answers the user can type at the prompt that follows the list of all
\* the options
SecondAnswers == {<<"c">>, <<"C">>, <<"1">>, <<"9">>, <<>>}

\* the lines the user can type when asked for the custom text
TypedLines == {<<>>, <<"u">>, <<" ", "u">>}

\* int(choice) returns: the answer is one digit
IsInt(t) == Len(t) = 1 /\ t[1] \in {"0", "1", "2", "3", "9"}

\* int(choice) of an answer of one digit
int(t) ==
    CASE t[1] = "0" -> 0
      [] t[1] = "1" -> 1
      [] t[1] = "2" -> 2
      [] t[1] = "3" -> 3
      [] t[1] = "9" -> 9

RECURSIVE join(_)
\* '\n'.join(lines)
join(lines) ==
    IF lines = <<>> THEN <<>>
    ELSE IF Len(lines) = 1 THEN lines[1]
    ELSE lines[1] \o <<"\n">> \o join(Tail(lines))

\* input_collector.py:133-151  the options are shown and the first prompt is
\* answered
ask_choice ==
    /\ prompt_pc = "call"
    /\ \E answer \in FirstAnswers : user_choice' = lowercase(strip(answer))
    /\ prompt_pc' = "choice"
    /\ UNCHANGED <<pool_key, allow_long_text, asked_text, typed_lines, returned_text,
                   sessionVars, besidesCollector>>

\* input_collector.py:153-165  the answer is 'c': the custom text is asked for
\* and returned, the lines before END when allow_long_text, one line otherwise
ask_custom_text ==
    /\ prompt_pc = "choice"
    /\ user_choice = <<"c">>
    /\ asked_text' = TRUE
    /\ IF allow_long_text
       THEN \E lines \in UNION {[1..n -> TypedLines] : n \in 0..2} :
              /\ typed_lines' = lines
              /\ returned_text' = join(lines)
       ELSE \E line \in TypedLines :
              /\ typed_lines' = <<line>>
              /\ returned_text' = line
    /\ prompt_pc' = "returned"
    /\ UNCHANGED <<pool_key, allow_long_text, user_choice, sessionVars, besidesCollector>>

\* input_collector.py:167-171  the answer is 'r': all the options are listed
\* and the second prompt is answered
show_all_options ==
    /\ prompt_pc = "choice"
    /\ user_choice = <<"r">>
    /\ \E answer \in SecondAnswers : user_choice' = strip(answer)
    /\ prompt_pc' = "all"
    /\ UNCHANGED <<pool_key, allow_long_text, asked_text, typed_lines, returned_text,
                   sessionVars, besidesCollector>>

\* input_collector.py:173-183  the answer is taken as the number of an option;
\* when it is not one, random.choice(options) is returned
return_option ==
    /\ \/ prompt_pc = "choice" /\ user_choice \notin {<<"c">>, <<"r">>}
       \/ prompt_pc = "all"
    /\ LET options == content[pool_key]
       IN  IF IsInt(user_choice) /\ 0 <= int(user_choice) - 1
                                 /\ int(user_choice) - 1 < Len(options)
           THEN returned_text' = options[int(user_choice)]
           ELSE \E option \in Range(options) : returned_text' = option
    /\ prompt_pc' = "returned"
    /\ UNCHANGED <<pool_key, allow_long_text, user_choice, asked_text, typed_lines,
                   sessionVars, besidesCollector>>

\* get_user_choice_or_custom(pool_key, question, allow_long_text) is called
InitChoice ==
    /\ content = [c \in Categories |-> Pool(PoolSize)]
    /\ used_content = [c \in Categories |-> <<>>]
    /\ returned = [c \in Categories |-> <<>>]
    /\ NoShiftYet
    /\ NoRunYet
    /\ NoTableYet
    /\ NoLogbookYet
    /\ NoDocumentYet
    /\ raised = ""
    /\ prompt_pc = "call"
    /\ pool_key \in Categories
    /\ allow_long_text \in BOOLEAN
    /\ user_choice = <<>>
    /\ asked_text = FALSE
    /\ typed_lines = <<>>
    /\ returned_text = <<>>
    /\ NoSessionYet

NextChoice ==
    \/ ask_choice
    \/ ask_custom_text
    \/ show_all_options
    \/ return_option

SpecChoice == InitChoice /\ [][NextChoice]_vars

\* the user has answered 'c' at the prompt the function is at
AnsweredCustom == prompt_pc \in {"choice", "all"} /\ user_choice = <<"c">>

\* C22: whenever the user answers 'c' at a prompt that offers 'c' for custom
\* text (the first prompt, or the prompt shown after 'r' listed all options),
\* get_user_choice_or_custom asks for the custom text and returns exactly the
\* text the user typed, never a value drawn from the pool.
C22_CustomAnswerReturnsTypedText ==
    [][(AnsweredCustom /\ prompt_pc' = "returned") =>
          /\ asked_text'
          /\ returned_text' = join(typed_lines')]_vars

----------------------------------------------------------------------------
(* ShiftInputCollector.run, input_collector.py:254-292, and the run of      *)
(* generator_custom.py that follows it                                      *)

\* the answers of the user to the prompts of a shift: a text typed at every
\* prompt, or Enter at every prompt
SessionAnswers == {<<"v">>, <<>>}

\* the text typed at every prompt of the session that saved the file that
\* exists when the collector starts
EarlierAnswer == <<"u">>

\* input_collector.py:55-56, 63-66  the basic data of shift i + 1 in
\* collect_shift_data_interactive
interactive_shift(n) ==
    [shift_number |-> n + 1,
     date |-> n \div 2,
     shift_type |-> IF n % 2 = 0 THEN "lunch" ELSE "dinner"]

\* input_collector.py:89-129  collect_variable_data: prepared_service is the
\* stripped answer or, when that is empty, the text of the pool; a narrative
\* field is what get_user_choice_or_custom returns, the text typed after 'c'
\* or, after Enter, the value sampled of the pool
collect_variable_data(shift_type, answer, sampled) ==
    [field \in CustomFields |->
        IF field = "prepared_service"
        THEN IF strip(answer) # <<>>
             THEN strip(answer)
             ELSE prepared_service_pool[shift_type]
        ELSE IF answer # <<>> THEN answer ELSE sampled[field]]

\* input_collector.py:197-203  the row of shift i + 1 in create_excel_template
template_row(n) ==
    [shift_number |-> n + 1,
     date |-> n \div 2,
     shift_type |-> IF n % 2 = 0 THEN "lunch" ELSE "dinner"]

\* mutant: the date and the type are computed from the shift number, not from
\* the shift number less one
key_shift_from_number(shift_num, food_details) ==
    [shift_number |-> shift_num,
     date |-> shift_num \div 2,
     shift_type |-> IF shift_num % 2 = 0 THEN "lunch" ELSE "dinner",
     custom |-> TRUE,
     food_details |-> food_details]

\* input_collector.py:320-335  the record of shift shift_num in
\* collect_key_shifts_only
key_shift(shift_num, food_details) ==
    [shift_number |-> shift_num,
     date |-> (shift_num - 1) \div 2,
     shift_type |-> IF (shift_num - 1) % 2 = 0 THEN "lunch" ELSE "dinner",
     custom |-> TRUE,
     food_details |-> food_details]

\* the shift numbers the user types in hybrid mode
TypedNumbers == {1, 2, 48, 49}

\* input_collector.py:301-312  shift_numbers: the numbers typed, or the 10
\* numbers random.sample(range(1, 49), 10) draws (here the 10 smallest or the
\* 10 largest)
KeyShiftInputs ==
    UNION {[1..n -> TypedNumbers] : n \in 1..MaxTyped}
    \cup {[k \in 1..10 |-> first + k] : first \in {0, 38}}

\* the values sampled of the pools, one per narrative field
Sampled ==
    {s \in [NarrativeFields -> UNION {Range(content[f]) : f \in NarrativeFields}] :
        \A f \in NarrativeFields : s[f] \in Range(content[f])}

\* the answers of the user for the next shift of the session
AnswersNow == IF collected < MaxTyped THEN SessionAnswers ELSE {<<>>}

\* the file an earlier interactive session of k shifts saved
EarlierSession(k) ==
    [n \in 1..k |->
        update(interactive_shift(n - 1),
               collect_variable_data(interactive_shift(n - 1).shift_type,
                                     EarlierAnswer,
                                     [f \in NarrativeFields |-> <<>>]))]

\* input_collector.py:242-252  load_existing_data
load_existing_data ==
    /\ collector_pc = "load"
    /\ IF file_exists
       THEN \E answer \in Answers :
              shifts_data' = IF lower(answer) = "s" THEN saved_file ELSE shifts_data
       ELSE UNCHANGED shifts_data
    /\ collector_pc' = "menu"
    /\ UNCHANGED <<collected, shift_numbers, template_rows, file_exists, saved_file,
                   promptVars, besidesCollector>>

\* input_collector.py:259-292  the menu of run: option 1 starts the
\* interactive collection, option 2 makes the spreadsheet template, option 4
\* asks for the shifts of the hybrid mode, options 3 and 0 end the run, and
\* another answer shows the menu again (option 5 reads a spreadsheet, which is
\* not part of the model)
show_menu ==
    /\ collector_pc = "menu"
    /\ \E option \in {"1", "2", "3", "4", "0", "9"} :
         \/ /\ option = "1"
            /\ collector_pc' = "interactive"
            /\ UNCHANGED <<shift_numbers, template_rows>>
         \/ /\ option = "2"
            /\ template_rows' = [n \in 1..48 |-> template_row(n - 1)]
            /\ collector_pc' = "done"
            /\ UNCHANGED shift_numbers
         \/ /\ option \in {"3", "0"}
            /\ collector_pc' = "done"
            /\ UNCHANGED <<shift_numbers, template_rows>>
         \/ /\ option = "4"
            /\ \E numbers \in KeyShiftInputs :
                 shift_numbers' = SortSeq(numbers, LAMBDA a, b : a < b)
            /\ collector_pc' = "hybrid"
            /\ UNCHANGED template_rows
         \/ /\ option = "9"
            /\ UNCHANGED <<collector_pc, shift_numbers, template_rows>>
    /\ UNCHANGED <<shifts_data, collected, file_exists, saved_file, promptVars,
                   besidesCollector>>

\* input_collector.py:54-87  one iteration of collect_shift_data_interactive:
\* the record of the shift is appended, and the user goes on or stops
collect_shift ==
    /\ collector_pc = "interactive"
    /\ \E answer \in AnswersNow, sampled \in Sampled :
         LET basic == interactive_shift(collected)
         IN  shifts_data' =
               Append(shifts_data,
                      update(basic,
                             collect_variable_data(basic.shift_type, answer, sampled)))
    /\ IF collected < 47
       THEN \E continue_choice \in {"s", "q", "n"} :
              IF continue_choice \in {"q", "n"}
              THEN collector_pc' = "save" /\ UNCHANGED collected
              ELSE collector_pc' = "interactive" /\ collected' = collected + 1
       ELSE collector_pc' = "save" /\ UNCHANGED collected
    /\ UNCHANGED <<shift_numbers, template_rows, file_exists, saved_file, promptVars,
                   besidesCollector>>

\* input_collector.py:319-337  one iteration of collect_key_shifts_only
collect_key_shift ==
    /\ collector_pc = "hybrid"
    /\ shift_numbers # <<>>
    /\ \E answer \in AnswersNow :
         shifts_data' =
           Append(shifts_data, key_shift(Head(shift_numbers), strip(answer)))
    /\ shift_numbers' = Tail(shift_numbers)
    /\ collected' = collected + 1
    /\ collector_pc' = IF Tail(shift_numbers) = <<>> THEN "save" ELSE "hybrid"
    /\ UNCHANGED <<template_rows, file_exists, saved_file, promptVars,
                   besidesCollector>>

\* input_collector.py:226-240  save_data
save_data ==
    /\ collector_pc = "save"
    /\ saved_file' = shifts_data
    /\ file_exists' = TRUE
    /\ collector_pc' = "done"
    /\ UNCHANGED <<shifts_data, collected, shift_numbers, template_rows, promptVars,
                   besidesCollector>>

\* generator_custom.py:310-311  the user runs generator_custom.py after the
\* collector, as save_data tells (input_collector.py:236-238)
run_generator_custom ==
    /\ collector_pc = "done"
    /\ run_pc = "off"
    /\ run_pc' = "load"
    /\ n_shifts' = NumShifts
    /\ UNCHANGED <<custom_data, loaded_from, asked, choice, loadedVars, i, shift_pc,
                   is_custom, custom_shift, shift_data, custom_count, auto_count,
                   printed, shifts, selectorVars, besidesGenerator>>

\* the collector is started where shifts_data_custom.json does not exist, or
\* where an earlier session has saved it
InitCollected ==
    /\ content = [c \in Categories |-> Pool(1)]
    /\ used_content = [c \in Categories |-> <<>>]
    /\ returned = [c \in Categories |-> <<>>]
    /\ NoShiftYet
    /\ NoRunYet
    /\ NoTableYet
    /\ NoLogbookYet
    /\ NoDocumentYet
    /\ raised = ""
    /\ NoPromptYet
    /\ collector_pc = "load"
    /\ shifts_data = <<>>
    /\ collected = 0
    /\ shift_numbers = <<>>
    /\ template_rows = <<>>
    /\ \/ file_exists = FALSE /\ saved_file = <<>>
       \/ file_exists = TRUE /\ saved_file \in {EarlierSession(k) : k \in 1..MaxTyped}

NextCollected ==
    \/ load_existing_data
    \/ show_menu
    \/ collect_shift
    \/ collect_key_shift
    \/ save_data
    \/ run_generator_custom
    \/ load_custom_data
    \/ confirm_generation
    \/ open_template
    \/ begin_shift
    \/ generate_shift_custom
    \/ generate_shift_automatic

SpecCollected == InitCollected /\ [][NextCollected]_vars

----------------------------------------------------------------------------
(* Claims about the collector and the run of generator_custom.py after it   *)

\* C28: for the dataset the collector saved, the counts show_statistics prints
\* before the generation (len(custom_data) personalised, 48 - len(custom_data)
\* automatic) are the counts generate_shifts computes (custom_count and
\* auto_count), and custom_count + auto_count = 48.
C28_StatisticsMatchGeneration ==
    ShiftsGenerated =>
        /\ total_custom = custom_count
        /\ total_auto = auto_count
        /\ custom_count + auto_count = 48

\* the record of the collector and the record of a generator have the same
\* date and the same kind of shift (the collector writes lunch and dinner, the
\* generators write shift_type.title())
SameSchedule(record, shift) ==
    /\ record.date = shift.date
    /\ record.shift_type = Lower(shift.shift_type)

\* every record of the list with a shift number in 1..48 has the date and the
\* kind the generators give that shift: the ones of the formula of
\* generate_shifts, and the ones of the shift generator_custom.py has generated
ScheduledAsGenerated(records) ==
    \A k \in 1..Len(records) :
        LET n == records[k].shift_number
        IN  n \in 1..NumShifts =>
                /\ SameSchedule(records[k], basic_shift_data(n - 1))
                /\ n <= Len(shifts) => SameSchedule(records[k], shifts[n])

\* C29: the schedule is the same in every component: the date and the kind of
\* shift n, n in 1..48, in the records of the interactive collection, of the
\* hybrid mode and of the spreadsheet template (and in the file the collector
\* saved) are the date and the kind generate_shifts gives shift n.
C29_SameScheduleEverywhere ==
    /\ ScheduledAsGenerated(shifts_data)
    /\ ScheduledAsGenerated(saved_file)
    /\ ScheduledAsGenerated(template_rows)

\* the hybrid mode has saved a record for shift 48, and generator_custom.py
\* has generated its 48 shifts
C29_Witness ==
    /\ ShiftsGenerated
    /\ Len(shifts) = NumShifts
    /\ \E k \in 1..Len(saved_file) :
         /\ saved_file[k].shift_number = 48
         /\ "custom" \in DOMAIN saved_file[k]
         /\ saved_file[k].shift_type = "dinner"
         /\ saved_file[k].date = 23

\* the shift just assembled has more than one record in the saved file
AssembledFromSeveralRecords ==
    /\ FileModelled
    /\ shift_pc = "loop"
    /\ is_custom
    /\ i >= 1
    /\ Cardinality(RecordsOf(saved_file, i)) > 1

\* C30: when the saved file holds several records of a shift number, the shift
\* is resolved from the last of them only: the override record of the shift is
\* that record, and every field of the assembled record is the value of that
\* record or a text of the pools.
C30_LastRecordWins ==
    AssembledFromSeveralRecords =>
        LET last == saved_file[Max(RecordsOf(saved_file, i))]
        IN  /\ custom_shift = last
            /\ \A field \in CustomFields :
                 \/ shift_data[field] \in PoolTexts(field, ShiftType(i - 1))
                 \/ field \in DOMAIN last /\ shift_data[field] = last[field]

\* shift 1 was assembled from a file in which an earlier session left a record
\* of shift 1 with one text and the hybrid mode appended another one with
\* another text: the assembled record has the text of the later record
C30_Witness ==
    /\ AssembledFromSeveralRecords
    /\ i = 1
    /\ saved_file[1].food_details = EarlierAnswer
    /\ saved_file[Len(saved_file)].shift_number = 1
    /\ saved_file[Len(saved_file)].food_details = <<"v">>
    /\ shift_data["food_details"] = <<"v">>
    /\ shift_data["special_requests"] \in Range(content["special_requests"])

====
